---------------------------- MODULE Spec2Model ----------------------------
(***************************************************************************)
(* The decision engine of the healthcare assistant (logic.py) and the      *)
(* analysis flow that drives it (app.py).                                  *)
(*                                                                         *)
(* The state is the fitted classifier, built once when logic.py is         *)
(* imported, and the frame of the call in progress: its arguments and the  *)
(* values it returned.  The functions of logic.py are pure, so a frame is  *)
(* discarded when the caller has consumed it (Return).                     *)
(***************************************************************************)
EXTENDS Integers, Sequences, FiniteSets

VARIABLES
  disease_model,        \* the fitted MultinomialNB: class and feature counts
  pc,                   \* "ready", or the call whose frame is shown
  symptoms,             \* predict_disease: the reported symptom collection
  prediction,           \* predict_disease: the returned condition
  confidence,           \* predict_disease: the returned percentage
  disease,              \* get_medicine_recommendations: condition name
  patient_age,          \* get_medicine_recommendations: age in years
  allergies,            \* get_medicine_recommendations: allergy tokens
  safe_medicines,       \* get_medicine_recommendations: the returned list
  text,                 \* extract_symptoms_from_text: the description
  extracted_symptoms,   \* extract_symptoms_from_text: the returned list
  raised,               \* the exception the call ended with, "none" if it returned
  form,                 \* main: the inputs of the page when Analyze is pressed
  page                  \* main: what the run showed and wrote to the report

vars == <<disease_model, pc, symptoms, prediction, confidence, disease,
          patient_age, allergies, safe_medicines, text, extracted_symptoms,
          raised, form, page>>

--------------------------------------------------------------------------
(* Bounds of the model.                                                    *)

\* Augmentation outcomes enumerated: the offsets of the four diseases' draws
\* add up to at most MaxShift (see Choice and TrainingDraws).
MaxShift == 2
\* Largest number of identifiers joined into one description.
MaxJoined == 2
\* Largest number of boxes ticked in the symptom list of the page.
MaxSelected == 3
\* Largest reported symptom collection handed to predict_disease.
MaxSymptoms == 4
\* Largest allergy collection handed to get_medicine_recommendations.
MaxAllergies == 2

--------------------------------------------------------------------------
(* Reference data.                                                         *)

AVAILABLE_SYMPTOMS ==
  <<"fever", "cough", "fatigue", "headache", "body_ache", "sore_throat",
    "runny_nose", "nausea", "vomiting", "diarrhea", "stomach_pain",
    "heartburn", "chest_pain", "shortness_of_breath", "dizziness",
    "rapid_heartbeat", "sweating", "loss_of_appetite", "weakness", "chills">>

\* The keys of DISEASE_SYMPTOMS in insertion order, the order .items() yields.
DISEASES == <<"Flu", "Viral Infection", "Acidity", "Cardiac Risk">>

DISEASE_SYMPTOMS ==
  [d \in {"Flu", "Viral Infection", "Acidity", "Cardiac Risk"} |->
     CASE d = "Flu" ->
            <<"fever", "cough", "fatigue", "headache", "body_ache",
              "sore_throat", "chills", "weakness">>
       [] d = "Viral Infection" ->
            <<"fever", "cough", "fatigue", "sore_throat", "runny_nose",
              "headache", "body_ache">>
       [] d = "Acidity" ->
            <<"heartburn", "stomach_pain", "nausea", "vomiting",
              "loss_of_appetite">>
       [] d = "Cardiac Risk" ->
            <<"chest_pain", "shortness_of_breath", "dizziness",
              "rapid_heartbeat", "sweating", "nausea">>]

\* The catalog.  age_restrictions is the empty set for None and {m} for a
\* minimum age m; a contraindication tag is its sequence of characters.
MEDICINE_DATABASE ==
  [d \in {"Flu", "Viral Infection", "Acidity", "Cardiac Risk"} |->
     CASE d = "Flu" ->
            <<
              [name |-> "Paracetamol",
               type |-> "Fever reducer & Pain reliever",
               age_restrictions |-> {},
               contraindications |->
                 <<<<"p","a","r","a","c","e","t","a","m","o","l">>,
                    <<"a","c","e","t","a","m","i","n","o","p","h","e","n">>>>,
               notes |-> "Standard fever and pain management"],
              [name |-> "Cetirizine",
               type |-> "Antihistamine",
               age_restrictions |-> {2},
               contraindications |->
                 <<<<"c","e","t","i","r","i","z","i","n","e">>>>,
               notes |-> "For runny nose and allergic symptoms"],
              [name |-> "Vitamin C",
               type |-> "Supplement",
               age_restrictions |-> {},
               contraindications |->
                 <<>>,
               notes |-> "Immune support"],
              [name |-> "Zinc supplements",
               type |-> "Supplement",
               age_restrictions |-> {},
               contraindications |->
                 <<>>,
               notes |-> "May reduce duration of symptoms"]
            >>
       [] d = "Viral Infection" ->
            <<
              [name |-> "Paracetamol",
               type |-> "Fever reducer",
               age_restrictions |-> {},
               contraindications |->
                 <<<<"p","a","r","a","c","e","t","a","m","o","l">>,
                    <<"a","c","e","t","a","m","i","n","o","p","h","e","n">>>>,
               notes |-> "For fever management"],
              [name |-> "Cetirizine",
               type |-> "Antihistamine",
               age_restrictions |-> {2},
               contraindications |->
                 <<<<"c","e","t","i","r","i","z","i","n","e">>>>,
               notes |-> "For cold symptoms"],
              [name |-> "Honey (warm water)",
               type |-> "Natural remedy",
               age_restrictions |-> {1},
               contraindications |->
                 <<>>,
               notes |-> "Soothes throat, natural antimicrobial"],
              [name |-> "Steam inhalation",
               type |-> "Home remedy",
               age_restrictions |-> {},
               contraindications |->
                 <<>>,
               notes |-> "Helps clear nasal congestion"]
            >>
       [] d = "Acidity" ->
            <<
              [name |-> "Omeprazole",
               type |-> "Proton pump inhibitor",
               age_restrictions |-> {18},
               contraindications |->
                 <<<<"o","m","e","p","r","a","z","o","l","e">>>>,
               notes |-> "Reduces stomach acid production"],
              [name |-> "Ranitidine alternatives (Famotidine)",
               type |-> "H2 blocker",
               age_restrictions |-> {12},
               contraindications |->
                 <<<<"f","a","m","o","t","i","d","i","n","e">>>>,
               notes |-> "Alternative acid reducer"],
              [name |-> "Antacid (Digene/ENO)",
               type |-> "Antacid",
               age_restrictions |-> {},
               contraindications |->
                 <<>>,
               notes |-> "Quick relief from heartburn"],
              [name |-> "Probiotics",
               type |-> "Supplement",
               age_restrictions |-> {},
               contraindications |->
                 <<>>,
               notes |-> "Supports digestive health"]
            >>
       [] d = "Cardiac Risk" ->
            <<>>]

Range(s) == {s[i] : i \in 1..Len(s)}

Max(a, b) == IF a >= b THEN a ELSE b

RECURSIVE SubsetsUpTo(_, _)
\* The subsets of U with at most k elements.
SubsetsUpTo(U, k) ==
  IF k = 0 THEN {{}}
  ELSE LET smaller == SubsetsUpTo(U, k - 1)
       IN  smaller \cup {T \cup {u} : T \in smaller, u \in U}

--------------------------------------------------------------------------
(* Training: create_training_data and MultinomialNB.fit.                   *)

\* np.random.choice(symptoms, subset_size, replace=False), as the set of the
\* entries it returns.  Every subset of that size is a possible outcome; the
\* model enumerates those that leave out a run of consecutive entries of the
\* list (cyclically), the run starting after position `offset`.
Choice(symptoms_list, subset_size, offset) ==
  LET n == Len(symptoms_list)
      left_out == {((offset + j) % n) + 1 : j \in 0..(n - subset_size - 1)}
  IN  {symptoms_list[p] : p \in (1..n) \ left_out}

\* [1 if s in symptoms else 0 for s in AVAILABLE_SYMPTOMS]
symptom_vector(present) ==
  [i \in 1..Len(AVAILABLE_SYMPTOMS) |->
     IF AVAILABLE_SYMPTOMS[i] \in present THEN 1 ELSE 0]

\* The rows one disease contributes: its full profile, then, when it has more
\* than 3 symptoms, three subsets of sizes max(2, n-1), max(2, n-2), max(2, n-3).
disease_rows(d, offset) ==
  LET syms == DISEASE_SYMPTOMS[d]
      full == <<[x |-> symptom_vector(Range(syms)), y |-> d]>>
      variation(i) ==
        [x |-> symptom_vector(Choice(syms, Max(2, Len(syms) - i - 1), offset)),
         y |-> d]
  IN  IF Len(syms) > 3
        THEN full \o <<variation(0), variation(1), variation(2)>>
        ELSE full

\* X_train, y_train as one sequence of labelled rows, for the draws `offsets`.
create_training_data(offsets) ==
  disease_rows(DISEASES[1], offsets[DISEASES[1]])
    \o disease_rows(DISEASES[2], offsets[DISEASES[2]])
    \o disease_rows(DISEASES[3], offsets[DISEASES[3]])
    \o disease_rows(DISEASES[4], offsets[DISEASES[4]])

RECURSIVE SumOver(_, _, _)
\* Sum of feature i over the first n rows.
SumOver(rows, n, i) ==
  IF n = 0 THEN 0 ELSE SumOver(rows, n - 1, i) + rows[n].x[i]

\* MultinomialNB().fit(X_train, y_train): per class, the number of rows
\* (class_count_) and the per-feature sums of its rows (feature_count_).
fit(rows) ==
  LET of_class(c) == SelectSeq(rows, LAMBDA r : r.y = c)
  IN  [class_count |->
         [c \in Range(DISEASES) |-> Len(of_class(c))],
       feature_count |->
         [c \in Range(DISEASES) |->
            [i \in 1..Len(AVAILABLE_SYMPTOMS) |->
               SumOver(of_class(c), Len(of_class(c)), i)]]]

\* The draws the augmentation step can make, one offset per disease.
TrainingDraws ==
  {o \in [Range(DISEASES) -> 0..MaxShift] :
     /\ \A d \in Range(DISEASES) : o[d] < Len(DISEASE_SYMPTOMS[d])
     /\ o[DISEASES[1]] + o[DISEASES[2]] + o[DISEASES[3]] + o[DISEASES[4]]
          <= MaxShift}

--------------------------------------------------------------------------
(* Exact arithmetic for the classifier's probabilities.  A natural number  *)
(* is a sequence of base-10000 digits, least significant first, without    *)
(* leading zeros; zero is the empty sequence.                              *)

RECURSIVE BigTimes(_, _, _)
BigTimes(a, m, carry) ==
  IF a = <<>>
    THEN IF carry = 0 THEN <<>>
         ELSE <<carry % 10000>> \o BigTimes(<<>>, m, carry \div 10000)
    ELSE LET t == Head(a) * m + carry
         IN  <<t % 10000>> \o BigTimes(Tail(a), m, t \div 10000)

\* a * m for a small natural m.
BigMul(a, m) == IF m = 0 THEN <<>> ELSE BigTimes(a, m, 0)

RECURSIVE BigPlus(_, _, _)
BigPlus(a, b, carry) ==
  IF a = <<>> /\ b = <<>>
    THEN IF carry = 0 THEN <<>> ELSE <<carry>>
    ELSE LET x == IF a = <<>> THEN 0 ELSE Head(a)
             y == IF b = <<>> THEN 0 ELSE Head(b)
             t == x + y + carry
         IN  <<t % 10000>>
               \o BigPlus(IF a = <<>> THEN <<>> ELSE Tail(a),
                          IF b = <<>> THEN <<>> ELSE Tail(b),
                          t \div 10000)

BigAdd(a, b) == BigPlus(a, b, 0)

RECURSIVE BigLessFrom(_, _, _)
\* a < b for numbers of the same length, compared from digit i downwards.
BigLessFrom(a, b, i) ==
  IF i = 0 THEN FALSE
  ELSE IF a[i] # b[i] THEN a[i] < b[i]
  ELSE BigLessFrom(a, b, i - 1)

BigLess(a, b) ==
  IF Len(a) # Len(b) THEN Len(a) < Len(b) ELSE BigLessFrom(a, b, Len(a))

RECURSIVE BigPow(_, _, _)
\* a * m^k
BigPow(a, m, k) == IF k = 0 THEN a ELSE BigPow(BigMul(a, m), m, k - 1)

--------------------------------------------------------------------------
(* Inference: MultinomialNB.predict / predict_proba and predict_disease.   *)

\* disease_model.classes_: the labels in sorted order.
classes_ == <<"Acidity", "Cardiac Risk", "Flu", "Viral Infection">>

RECURSIVE SmoothedTotal(_, _)
\* Sum over the first n features of feature_count + alpha, alpha = 1.
SmoothedTotal(counts, n) ==
  IF n = 0 THEN 0 ELSE SmoothedTotal(counts, n - 1) + counts[n] + 1

RECURSIVE Likelihood(_, _, _)
\* Product of (feature_count + 1) over the features among the first n set in x.
Likelihood(counts, x, n) ==
  IF n = 0 THEN <<1>>
  ELSE IF x[n] = 1 THEN BigMul(Likelihood(counts, x, n - 1), counts[n] + 1)
  ELSE Likelihood(counts, x, n - 1)

RECURSIVE TimesOthers(_, _, _, _, _)
\* a multiplied by totals[m]^k for every class index m <= n other than c.
TimesOthers(totals, a, c, k, n) ==
  IF n = 0 THEN a
  ELSE IF n = c THEN TimesOthers(totals, a, c, k, n - 1)
  ELSE TimesOthers(totals, BigPow(a, totals[n], k), c, k, n - 1)

RECURSIVE Totals(_, _, _)
\* SmoothedTotal of each of the first n classes.
Totals(model, x, n) ==
  IF n = 0 THEN <<>>
  ELSE Append(Totals(model, x, n - 1),
              SmoothedTotal(model.feature_count[classes_[n]], Len(x)))

RECURSIVE Weights(_, _, _, _)
\* For each of the first n classes, its joint likelihood with x, the prior
\* class_count/N times the product over the set features of
\* (count + 1)/SmoothedTotal, scaled by the factor common to all classes.
Weights(model, x, totals, n) ==
  IF n = 0 THEN <<>>
  ELSE Append(Weights(model, x, totals, n - 1),
              TimesOthers(totals,
                BigMul(Likelihood(model.feature_count[classes_[n]], x, Len(x)),
                       model.class_count[classes_[n]]),
                n, Cardinality({i \in DOMAIN x : x[i] = 1}), Len(classes_)))

RECURSIVE ArgMax(_, _)
\* Index of the first largest weight among the first n (np.argmax).
ArgMax(weights, n) ==
  IF n = 1 THEN 1
  ELSE LET best == ArgMax(weights, n - 1)
       IN  IF BigLess(weights[best], weights[n]) THEN n ELSE best

RECURSIVE Quotient(_, _, _, _)
\* The largest v in lo..hi with v * b <= a, given lo * b <= a < (hi + 1) * b.
Quotient(a, b, lo, hi) ==
  IF lo = hi THEN lo
  ELSE LET mid == (lo + hi + 1) \div 2
       IN  IF BigLess(a, BigMul(b, mid))
             THEN Quotient(a, b, lo, mid - 1)
             ELSE Quotient(a, b, mid, hi)

RECURSIVE Above(_, _, _)
\* A power of two v >= hi with a < v * b.
Above(a, b, hi) ==
  IF BigLess(a, BigMul(b, hi)) THEN hi ELSE Above(a, b, 2 * hi)

\* int(a / b) for b > 0.
Floor(a, b) == Quotient(a, b, 0, Above(a, b, 1) - 1)

\* model_predict with the largest weight divided by the mean of the weights
\* instead of their sum.
model_predict_over_mean(model, x) ==
  LET weights ==
        Weights(model, x, Totals(model, x, Len(classes_)), Len(classes_))
      best == ArgMax(weights, Len(classes_))
      total == BigAdd(BigAdd(weights[1], weights[2]), BigAdd(weights[3], weights[4]))
  IN  [prediction |-> classes_[best],
       confidence |->
         Floor(BigMul(BigMul(weights[best], 100), Len(classes_)), total)]

\* disease_model.predict([x])[0] and int(max(predict_proba([x])[0]) * 100).
\* The probability of class n is weights[n] / total.
model_predict(model, x) ==
  LET weights ==
        Weights(model, x, Totals(model, x, Len(classes_)), Len(classes_))
      best == ArgMax(weights, Len(classes_))
      total == BigAdd(BigAdd(weights[1], weights[2]), BigAdd(weights[3], weights[4]))
  IN  [prediction |-> classes_[best],
       confidence |-> Floor(BigMul(weights[best], 100), total)]

\* predict_disease without the cardiac override: the model's answer as it is.
predict_disease_without_override(reported) ==
  model_predict(disease_model, symptom_vector(reported))

\* predict_disease with the override taken at more than 3 cardiac symptoms.
predict_disease_above_three(reported) ==
  LET answer == model_predict(disease_model, symptom_vector(reported))
      cardiac_symptoms == Range(DISEASE_SYMPTOMS["Cardiac Risk"])
  IN  IF Cardinality(cardiac_symptoms \cap reported) > 3
        THEN [prediction |-> "Cardiac Risk", confidence |-> 95]
        ELSE answer

\* predict_disease(symptoms): the model's answer, overridden to Cardiac Risk
\* at 95 when 3 or more cardiac symptoms are reported.
predict_disease(reported) ==
  LET answer == model_predict(disease_model, symptom_vector(reported))
      cardiac_symptoms == Range(DISEASE_SYMPTOMS["Cardiac Risk"])
  IN  IF Cardinality(cardiac_symptoms \cap reported) >= 3
        THEN [prediction |-> "Cardiac Risk", confidence |-> 95]
        ELSE answer

\* validate_symptoms(symptoms); no function of logic.py or app.py calls it.
validate_symptoms(reported) == \A s \in reported : s \in Range(AVAILABLE_SYMPTOMS)


--------------------------------------------------------------------------
(* Medicine filter: get_medicine_recommendations.                          *)

\* too_young with a lower bound added to the test: 0 <= patient_age < minimum.
too_young_from_zero(med, age) ==
  /\ med.age_restrictions # {}
  /\ \E minimum \in med.age_restrictions : 0 <= age /\ age < minimum

\* too_young with the comparison reversed.
too_young_reversed(med, age) ==
  /\ med.age_restrictions # {}
  /\ \E minimum \in med.age_restrictions : age > minimum

\* med["age_restrictions"] is not None and patient_age < med["age_restrictions"]
too_young(med, age) ==
  /\ med.age_restrictions # {}
  /\ \E minimum \in med.age_restrictions : age < minimum

\* allergic with all() in place of any().
allergic_to_all(med, tokens) ==
  \A allergy \in tokens : allergy \in Range(med.contraindications)

\* any(allergy in med["contraindications"] for allergy in allergies)
allergic(med, tokens) ==
  \E allergy \in tokens : allergy \in Range(med.contraindications)

\* The entry appended to safe_medicines for a catalog entry.
safe_entry(med, age) ==
  [Medicine |-> med.name,
   Type |-> med.type,
   Notes |-> med.notes,
   Age_Appropriate |->
     IF med.age_restrictions = {}
          \/ \A minimum \in med.age_restrictions : age >= minimum
       THEN "Yes" ELSE "No"]

RECURSIVE filter_medicines_newest_first(_, _, _, _)
\* filter_medicines with each entry inserted at the front of safe_medicines.
filter_medicines_newest_first(all_medicines, n, age, tokens) ==
  IF n = 0 THEN <<>>
  ELSE LET med == all_medicines[n]
           before == filter_medicines_newest_first(all_medicines, n - 1, age, tokens)
       IN  IF too_young(med, age) THEN before
           ELSE IF allergic(med, tokens) THEN before
           ELSE <<safe_entry(med, age)>> \o before

RECURSIVE filter_medicines(_, _, _, _)
\* The loop over all_medicines, for its first n entries.
filter_medicines(all_medicines, n, age, tokens) ==
  IF n = 0 THEN <<>>
  ELSE LET med == all_medicines[n]
           before == filter_medicines(all_medicines, n - 1, age, tokens)
       IN  IF too_young(med, age) THEN before
           ELSE IF allergic(med, tokens) THEN before
           ELSE Append(before, safe_entry(med, age))

\* recommend_from without the early return for Cardiac Risk.
recommend_from_catalog_only(database, condition, age, tokens) ==
  LET all_medicines ==
        IF condition \in DOMAIN database THEN database[condition] ELSE <<>>
  IN  filter_medicines(all_medicines, Len(all_medicines), age, tokens)

\* The body of get_medicine_recommendations over the catalog `database`:
\* the early return for Cardiac Risk, then database.get(disease, []) filtered.
recommend_from(database, condition, age, tokens) ==
  IF condition = "Cardiac Risk" THEN <<>>
  ELSE LET all_medicines ==
             IF condition \in DOMAIN database THEN database[condition] ELSE <<>>
       IN  filter_medicines(all_medicines, Len(all_medicines), age, tokens)

get_medicine_recommendations(condition, age, tokens) ==
  recommend_from(MEDICINE_DATABASE, condition, age, tokens)


--------------------------------------------------------------------------
(* Symptom extraction: extract_symptoms_from_text.  A text is the sequence *)
(* of its characters.                                                      *)

SYMPTOM_KEYWORDS ==
  <<
   [symptom |-> "fever", keywords |-> <<
       <<"f","e","v","e","r">>,
       <<"t","e","m","p","e","r","a","t","u","r","e">>,
       <<"h","o","t">>,
       <<"b","u","r","n","i","n","g"," ","u","p">>,
       <<"p","y","r","e","x","i","a">>
     >>],
   [symptom |-> "cough", keywords |-> <<
       <<"c","o","u","g","h">>,
       <<"c","o","u","g","h","i","n","g">>,
       <<"t","h","r","o","a","t"," ","c","l","e","a","r","i","n","g">>
     >>],
   [symptom |-> "fatigue", keywords |-> <<
       <<"t","i","r","e","d">>,
       <<"f","a","t","i","g","u","e">>,
       <<"e","x","h","a","u","s","t","e","d">>,
       <<"w","e","a","k","n","e","s","s">>,
       <<"w","e","a","k">>,
       <<"l","o","w"," ","e","n","e","r","g","y">>
     >>],
   [symptom |-> "headache", keywords |-> <<
       <<"h","e","a","d","a","c","h","e">>,
       <<"h","e","a","d"," ","p","a","i","n">>,
       <<"m","i","g","r","a","i","n","e">>
     >>],
   [symptom |-> "body_ache", keywords |-> <<
       <<"b","o","d","y"," ","a","c","h","e">>,
       <<"m","u","s","c","l","e"," ","p","a","i","n">>,
       <<"b","o","d","y"," ","p","a","i","n">>,
       <<"a","c","h","i","n","g">>,
       <<"s","o","r","e","n","e","s","s">>
     >>],
   [symptom |-> "sore_throat", keywords |-> <<
       <<"s","o","r","e"," ","t","h","r","o","a","t">>,
       <<"t","h","r","o","a","t"," ","p","a","i","n">>,
       <<"t","h","r","o","a","t"," ","h","u","r","t","s">>
     >>],
   [symptom |-> "runny_nose", keywords |-> <<
       <<"r","u","n","n","y"," ","n","o","s","e">>,
       <<"n","a","s","a","l"," ","d","i","s","c","h","a","r","g","e">>,
       <<"s","t","u","f","f","y"," ","n","o","s","e">>,
       <<"c","o","n","g","e","s","t","i","o","n">>
     >>],
   [symptom |-> "nausea", keywords |-> <<
       <<"n","a","u","s","e","a">>,
       <<"n","a","u","s","e","a","t","e","d">>,
       <<"f","e","e","l"," ","s","i","c","k">>,
       <<"q","u","e","a","s","y">>
     >>],
   [symptom |-> "vomiting", keywords |-> <<
       <<"v","o","m","i","t">>,
       <<"v","o","m","i","t","i","n","g">>,
       <<"t","h","r","o","w","i","n","g"," ","u","p">>,
       <<"p","u","k","i","n","g">>
     >>],
   [symptom |-> "diarrhea", keywords |-> <<
       <<"d","i","a","r","r","h","e","a">>,
       <<"l","o","o","s","e"," ","m","o","t","i","o","n","s">>,
       <<"l","o","o","s","e"," ","s","t","o","o","l","s">>
     >>],
   [symptom |-> "stomach_pain", keywords |-> <<
       <<"s","t","o","m","a","c","h"," ","p","a","i","n">>,
       <<"a","b","d","o","m","i","n","a","l"," ","p","a","i","n">>,
       <<"b","e","l","l","y"," ","p","a","i","n">>,
       <<"s","t","o","m","a","c","h"," ","a","c","h","e">>
     >>],
   [symptom |-> "heartburn", keywords |-> <<
       <<"h","e","a","r","t","b","u","r","n">>,
       <<"a","c","i","d"," ","r","e","f","l","u","x">>,
       <<"b","u","r","n","i","n","g"," ","c","h","e","s","t">>,
       <<"i","n","d","i","g","e","s","t","i","o","n">>
     >>],
   [symptom |-> "chest_pain", keywords |-> <<
       <<"c","h","e","s","t"," ","p","a","i","n">>,
       <<"c","h","e","s","t"," ","d","i","s","c","o","m","f","o","r","t">>,
       <<"c","h","e","s","t"," ","p","r","e","s","s","u","r","e">>,
       <<"c","h","e","s","t"," ","t","i","g","h","t","n","e","s","s">>
     >>],
   [symptom |-> "shortness_of_breath", keywords |-> <<
       <<"s","h","o","r","t","n","e","s","s"," ","o","f"," ","b","r","e","a","t","h">>,
       <<"b","r","e","a","t","h","i","n","g"," ","d","i","f","f","i","c","u","l","t","y">>,
       <<"c","a","n","'","t"," ","b","r","e","a","t","h","e">>,
       <<"b","r","e","a","t","h","l","e","s","s">>,
       <<"d","y","s","p","n","e","a">>
     >>],
   [symptom |-> "dizziness", keywords |-> <<
       <<"d","i","z","z","y">>,
       <<"d","i","z","z","i","n","e","s","s">>,
       <<"l","i","g","h","t","h","e","a","d","e","d">>,
       <<"v","e","r","t","i","g","o">>
     >>],
   [symptom |-> "rapid_heartbeat", keywords |-> <<
       <<"r","a","p","i","d"," ","h","e","a","r","t","b","e","a","t">>,
       <<"r","a","c","i","n","g"," ","h","e","a","r","t">>,
       <<"p","a","l","p","i","t","a","t","i","o","n","s">>,
       <<"h","e","a","r","t"," ","r","a","c","i","n","g">>
     >>],
   [symptom |-> "sweating", keywords |-> <<
       <<"s","w","e","a","t","i","n","g">>,
       <<"p","e","r","s","p","i","r","i","n","g">>,
       <<"c","o","l","d"," ","s","w","e","a","t">>
     >>],
   [symptom |-> "loss_of_appetite", keywords |-> <<
       <<"l","o","s","s"," ","o","f"," ","a","p","p","e","t","i","t","e">>,
       <<"n","o"," ","a","p","p","e","t","i","t","e">>,
       <<"n","o","t"," ","h","u","n","g","r","y">>
     >>],
   [symptom |-> "weakness", keywords |-> <<
       <<"w","e","a","k","n","e","s","s">>,
       <<"w","e","a","k">>,
       <<"f","e","e","b","l","e">>
     >>],
   [symptom |-> "chills", keywords |-> <<
       <<"c","h","i","l","l","s">>,
       <<"s","h","i","v","e","r","i","n","g">>,
       <<"s","h","a","k","i","n","g">>,
       <<"c","o","l","d">>
     >>]
  >>

UpperCase ==
  <<"A","B","C","D","E","F","G","H","I","J","K","L","M",
    "N","O","P","Q","R","S","T","U","V","W","X","Y","Z">>

LowerCase ==
  <<"a","b","c","d","e","f","g","h","i","j","k","l","m",
    "n","o","p","q","r","s","t","u","v","w","x","y","z">>

Digits == {"0","1","2","3","4","5","6","7","8","9"}

\* The characters the regular expression class \w matches (ASCII).
WordChars == Range(UpperCase) \cup Range(LowerCase) \cup Digits \cup {"_"}

UpperChars == Range(UpperCase)

\* str.lower(), on ASCII text.
lower(str) ==
  [i \in 1..Len(str) |->
     IF str[i] \in UpperChars
       THEN LowerCase[CHOOSE k \in 1..Len(UpperCase) : UpperCase[k] = str[i]]
       ELSE str[i]]

IsWordChar(c) == c \in WordChars

\* \b at position pos, between str[pos] and str[pos + 1]: exactly one of the
\* two sides is a word character (the ends of the text count as non-word).
word_boundary(str, pos) ==
  (pos >= 1 /\ IsWordChar(str[pos]))
    # (pos < Len(str) /\ IsWordChar(str[pos + 1]))

\* search without the two \b anchors: a plain substring test.
search_substring(keyword, str) ==
  \E start \in 0..(Len(str) - Len(keyword)) :
    SubSeq(str, start + 1, start + Len(keyword)) = keyword

\* re.search(r'\b' + re.escape(keyword) + r'\b', str)
search(keyword, str) ==
  \E start \in 0..(Len(str) - Len(keyword)) :
    /\ word_boundary(str, start)
    /\ SubSeq(str, start + 1, start + Len(keyword)) = keyword
    /\ word_boundary(str, start + Len(keyword))

RECURSIVE extract_loop_first_keyword(_, _)
\* extract_loop with the break taken after the first keyword, found or not.
extract_loop_first_keyword(text_lower, n) ==
  IF n = 0 THEN <<>>
  ELSE LET entry == SYMPTOM_KEYWORDS[n]
           before == extract_loop_first_keyword(text_lower, n - 1)
       IN  IF search(entry.keywords[1], text_lower)
             THEN IF entry.symptom \in Range(before) THEN before
                  ELSE Append(before, entry.symptom)
             ELSE before

RECURSIVE extract_loop(_, _)
\* The loop over SYMPTOM_KEYWORDS.items(), for its first n entries: a symptom
\* one of whose keywords is found is appended once.
extract_loop(text_lower, n) ==
  IF n = 0 THEN <<>>
  ELSE LET entry == SYMPTOM_KEYWORDS[n]
           before == extract_loop(text_lower, n - 1)
       IN  IF \E k \in 1..Len(entry.keywords) :
                search(entry.keywords[k], text_lower)
             THEN IF entry.symptom \in Range(before) THEN before
                  ELSE Append(before, entry.symptom)
             ELSE before

extract_symptoms_from_text(description) ==
  extract_loop(lower(description), Len(SYMPTOM_KEYWORDS))

\* The characters of a symptom identifier of AVAILABLE_SYMPTOMS.
Identifier(symptom) ==
  CASE 
       symptom = "fever" -> <<"f","e","v","e","r">>
    [] symptom = "cough" -> <<"c","o","u","g","h">>
    [] symptom = "fatigue" -> <<"f","a","t","i","g","u","e">>
    [] symptom = "headache" -> <<"h","e","a","d","a","c","h","e">>
    [] symptom = "body_ache" -> <<"b","o","d","y","_","a","c","h","e">>
    [] symptom = "sore_throat" -> <<"s","o","r","e","_","t","h","r","o","a","t">>
    [] symptom = "runny_nose" -> <<"r","u","n","n","y","_","n","o","s","e">>
    [] symptom = "nausea" -> <<"n","a","u","s","e","a">>
    [] symptom = "vomiting" -> <<"v","o","m","i","t","i","n","g">>
    [] symptom = "diarrhea" -> <<"d","i","a","r","r","h","e","a">>
    [] symptom = "stomach_pain" -> <<"s","t","o","m","a","c","h","_","p","a","i","n">>
    [] symptom = "heartburn" -> <<"h","e","a","r","t","b","u","r","n">>
    [] symptom = "chest_pain" -> <<"c","h","e","s","t","_","p","a","i","n">>
    [] symptom = "shortness_of_breath" -> <<"s","h","o","r","t","n","e","s","s","_","o","f","_","b","r","e","a","t","h">>
    [] symptom = "dizziness" -> <<"d","i","z","z","i","n","e","s","s">>
    [] symptom = "rapid_heartbeat" -> <<"r","a","p","i","d","_","h","e","a","r","t","b","e","a","t">>
    [] symptom = "sweating" -> <<"s","w","e","a","t","i","n","g">>
    [] symptom = "loss_of_appetite" -> <<"l","o","s","s","_","o","f","_","a","p","p","e","t","i","t","e">>
    [] symptom = "weakness" -> <<"w","e","a","k","n","e","s","s">>
    [] symptom = "chills" -> <<"c","h","i","l","l","s">>

RECURSIVE JoinIdentifiers(_, _)
\* " ".join of the identifiers of S among the first n of AVAILABLE_SYMPTOMS.
JoinIdentifiers(S, n) ==
  IF n = 0 THEN <<>>
  ELSE LET before == JoinIdentifiers(S, n - 1)
       IN  IF AVAILABLE_SYMPTOMS[n] \notin S THEN before
           ELSE IF before = <<>> THEN Identifier(AVAILABLE_SYMPTOMS[n])
           ELSE before \o <<" ">> \o Identifier(AVAILABLE_SYMPTOMS[n])


--------------------------------------------------------------------------
(* The page: main of app.py.                                               *)

Whitespace == {" ", "\t", "\n"}

RECURSIVE split(_, _)
\* str.split(sep) for a one-character separator.
split(str, sep) ==
  IF \A i \in 1..Len(str) : str[i] # sep THEN <<str>>
  ELSE LET at == CHOOSE i \in 1..Len(str) :
                   str[i] = sep /\ \A j \in 1..(i - 1) : str[j] # sep
       IN  <<SubSeq(str, 1, at - 1)>> \o split(SubSeq(str, at + 1, Len(str)), sep)

RECURSIVE strip(_)
\* str.strip()
strip(str) ==
  IF str = <<>> THEN str
  ELSE IF str[1] \in Whitespace THEN strip(Tail(str))
  ELSE IF str[Len(str)] \in Whitespace THEN strip(SubSeq(str, 1, Len(str) - 1))
  ELSE str

\* parse_allergies without .lower().
parse_allergies_as_typed(allergies_input) ==
  LET pieces == split(allergies_input, ",")
      kept == SelectSeq(pieces, LAMBDA a : strip(a) # <<>>)
  IN  [i \in 1..Len(kept) |-> strip(kept[i])]

\* [a.strip().lower() for a in allergies_input.split(",") if a.strip()]
parse_allergies(allergies_input) ==
  LET pieces == split(allergies_input, ",")
      kept == SelectSeq(pieces, LAMBDA a : strip(a) # <<>>)
  IN  [i \in 1..Len(kept) |-> lower(strip(kept[i]))]

\* The symptoms selected on the page: the ticked boxes in the order of
\* AVAILABLE_SYMPTOMS, or what extract_symptoms_from_text finds in a
\* non-empty description.
selected_symptoms(entry) ==
  IF entry.input_method = "Select from list"
    THEN SelectSeq(AVAILABLE_SYMPTOMS, LAMBDA s : s \in entry.ticked)
  ELSE IF entry.symptom_text # <<>>
    THEN extract_symptoms_from_text(entry.symptom_text)
  ELSE <<>>

\* The Recommendations section of the report.
report_recommendations(predicted_disease, recommendations) ==
  IF predicted_disease = "Cardiac Risk"
    THEN <<"IMMEDIATE MEDICAL ATTENTION REQUIRED - NO SELF-MEDICATION">>
  ELSE IF recommendations # <<>>
    THEN [i \in 1..Len(recommendations) |-> recommendations[i].Medicine]
           \o <<"Consult doctor before taking any medication">>
  ELSE <<>>

--------------------------------------------------------------------------
(* The calls.                                                              *)

\* Symptom identifiers callers report: the cardiac profile, the symptoms of
\* the flu scenario, and one identifier outside the vocabulary.
ReportableSymptoms ==
  Range(DISEASE_SYMPTOMS["Cardiac Risk"])
    \cup {"fever", "cough", "body_ache", "chills", "itching"}

ReportedCollections ==
  SubsetsUpTo(ReportableSymptoms, MaxSymptoms)

\* Condition names callers pass: the supported ones and one that is not.
ConditionNames == Range(DISEASES) \cup {"Migraine"}

\* Ages around every minimum age of the catalog, two negative ones and an
\* adult.
PatientAges == {-40, -1, 0, 1, 2, 3, 10, 11, 12, 13, 17, 18, 19, 30}

\* Allergy tokens callers pass: two catalog tags, one of them also
\* capitalised, and a token that tags nothing.
AllergyTokens ==
  { <<"p","a","r","a","c","e","t","a","m","o","l">>,
    <<"P","a","r","a","c","e","t","a","m","o","l">>,
    <<"c","e","t","i","r","i","z","i","n","e">>,
    <<"p","e","n","i","c","i","l","l","i","n">> }

AllergyCollections ==
  SubsetsUpTo(AllergyTokens, MaxAllergies)

\* Descriptions made of canonical identifiers joined by single spaces.
IdentifierTexts ==
  {JoinIdentifiers(S, Len(AVAILABLE_SYMPTOMS)) :
     S \in SubsetsUpTo(Range(AVAILABLE_SYMPTOMS), MaxJoined)}

\* Free-text descriptions: keywords alone, capitalised, inside larger words,
\* next to punctuation, digits and underscores, and a sentence with three
\* cardiac keywords.
Descriptions ==
  { <<"h","o","t">>,
    <<"s","h","o","t">>,
    <<"s","c","o","l","d">>,
    <<"c","h","i","l","d","i","s","h">>,
    <<"c","o","l","d","!">>,
    <<"w","e","a","k">>,
    <<"h","o","t","_","t","u","b">>,
    <<"f","e","v","e","r","2">>,
    <<"C","h","e","s","t"," ","P","A","I","N">>,
    <<"c","h","e","s","t"," "," ","p","a","i","n">>,
    <<"d","i","z","z","y"," ","t","h","e","n"," ","f","e","v","e","r">>,
    <<"n","o"," ","c","o","u","g","h",","," ","b","u","t"," ","v","o","m","i","t","e","d">>,
    <<"I"," ","h","a","v","e"," ","c","h","e","s","t"," ","p","a","i","n"," ",
      "a","n","d"," ","f","e","e","l"," ","d","i","z","z","y"," ","a","n","d"," ",
      "a","m"," ","s","w","e","a","t","i","n","g">> }

Texts == IdentifierTexts \cup Descriptions

PatientNames == {"", "Asha Rao"}

\* Ages the number input of the page accepts (1 to 120).
FormAges == {1, 11, 30}

\* Texts typed into the allergy field.
AllergyInputs ==
  { <<>>,
    <<"P","a","r","a","c","e","t","a","m","o","l">>,
    <<" ","c","e","t","i","r","i","z","i","n","e"," ",","," ",",",
      "P","A","R","A","C","E","T","A","M","O","L">> }

\* Boxes of the symptom list that get ticked.
TickableSymptoms ==
  Range(DISEASE_SYMPTOMS["Cardiac Risk"]) \cup {"fever", "cough"}

SymptomEntries ==
  {[input_method |-> "Select from list", ticked |-> S, symptom_text |-> <<>>] :
     S \in SubsetsUpTo(TickableSymptoms, MaxSelected)}
  \cup
  {[input_method |-> "Describe in text (NLP)", ticked |-> {}, symptom_text |-> t] :
     t \in Descriptions \cup {<<>>}}

NoForm ==
  [patient_name |-> "", patient_age |-> 0, allergies_input |-> <<>>,
   input_method |-> "none", ticked |-> {}, symptom_text |-> <<>>]

NoPage == [error |-> "none", shown |-> <<>>, report |-> <<>>]

Init ==
  /\ \E offsets \in TrainingDraws :
       disease_model = fit(create_training_data(offsets))
  /\ pc = "ready"
  /\ symptoms = {}
  /\ prediction = "none"
  /\ confidence = 0
  /\ disease = "none"
  /\ patient_age = 0
  /\ allergies = {}
  /\ safe_medicines = <<>>
  /\ text = <<>>
  /\ extracted_symptoms = <<>>
  /\ raised = "none"
  /\ form = NoForm
  /\ page = NoPage

\* A call of predict_disease(symptoms).
Predict ==
  /\ pc = "ready"
  /\ \E reported \in ReportedCollections :
     \E answer \in {predict_disease(reported)} :
       /\ symptoms' = reported
       /\ prediction' = answer.prediction
       /\ confidence' = answer.confidence
  /\ pc' = "predict_disease"
  /\ raised' = "none"
  /\ UNCHANGED <<disease_model, disease, patient_age, allergies,
                 safe_medicines, text, extracted_symptoms, form, page>>

\* A call of get_medicine_recommendations(disease, patient_age, allergies).
Recommend ==
  /\ pc = "ready"
  /\ \E condition \in ConditionNames, age \in PatientAges,
        tokens \in AllergyCollections :
       /\ disease' = condition
       /\ patient_age' = age
       /\ allergies' = tokens
       /\ safe_medicines' = get_medicine_recommendations(condition, age, tokens)
  /\ pc' = "get_medicine_recommendations"
  /\ raised' = "none"
  /\ UNCHANGED <<disease_model, symptoms, prediction, confidence, text,
                 extracted_symptoms, form, page>>

\* A call of extract_symptoms_from_text(text).
Extract ==
  /\ pc = "ready"
  /\ \E description \in Texts :
       /\ text' = description
       /\ extracted_symptoms' = extract_symptoms_from_text(description)
  /\ pc' = "extract_symptoms_from_text"
  /\ raised' = "none"
  /\ UNCHANGED <<disease_model, symptoms, prediction, confidence, disease,
                 patient_age, allergies, safe_medicines, form, page>>

\* One run of main with the Analyze button pressed.
Analyze ==
  /\ pc = "ready"
  /\ \E entry \in SymptomEntries :
     \E selected \in {selected_symptoms(entry)} :
     \E answer \in {predict_disease(Range(selected))} :
     \E name \in PatientNames, age \in FormAges, typed \in AllergyInputs :
     \E parsed \in {parse_allergies(typed)} :
     \E recommendations \in
          {get_medicine_recommendations(answer.prediction, age, Range(parsed))} :
       LET analysed == name # "" /\ selected # <<>>
           recommended == analysed /\ answer.prediction # "Cardiac Risk"
       IN  /\ form' = [patient_name |-> name, patient_age |-> age,
                       allergies_input |-> typed,
                       input_method |-> entry.input_method,
                       ticked |-> entry.ticked,
                       symptom_text |-> entry.symptom_text]
           /\ text' = entry.symptom_text
           /\ extracted_symptoms' =
                IF entry.input_method = "Select from list" THEN <<>> ELSE selected
           /\ symptoms' = IF analysed THEN Range(selected) ELSE {}
           /\ prediction' = IF analysed THEN answer.prediction ELSE "none"
           /\ confidence' = IF analysed THEN answer.confidence ELSE 0
           /\ disease' = IF recommended THEN answer.prediction ELSE "none"
           /\ patient_age' = IF recommended THEN age ELSE 0
           /\ allergies' = IF recommended THEN Range(parsed) ELSE {}
           /\ safe_medicines' = IF recommended THEN recommendations ELSE <<>>
           /\ page' =
                IF name = ""
                  THEN [error |-> "Please enter patient name",
                        shown |-> <<>>, report |-> <<>>]
                ELSE IF selected = <<>>
                  THEN [error |-> "Please select at least one symptom",
                        shown |-> <<>>, report |-> <<>>]
                ELSE [error |-> "none",
                      shown |-> IF recommended THEN recommendations ELSE <<>>,
                      report |-> report_recommendations(answer.prediction,
                                   IF recommended THEN recommendations ELSE <<>>)]
  /\ pc' = "main"
  /\ raised' = "none"
  /\ UNCHANGED disease_model

\* The caller has consumed the result; the frame is discarded.
Return ==
  /\ pc # "ready"
  /\ pc' = "ready"
  /\ symptoms' = {}
  /\ prediction' = "none"
  /\ confidence' = 0
  /\ disease' = "none"
  /\ patient_age' = 0
  /\ allergies' = {}
  /\ safe_medicines' = <<>>
  /\ text' = <<>>
  /\ extracted_symptoms' = <<>>
  /\ raised' = "none"
  /\ form' = NoForm
  /\ page' = NoPage
  /\ UNCHANGED disease_model

Next == Predict \/ Recommend \/ Extract \/ Analyze \/ Return

Spec == Init /\ [][Next]_vars

--------------------------------------------------------------------------
(* Properties.                                                             *)

CardiacSymptoms == Range(DISEASE_SYMPTOMS["Cardiac Risk"])

\* The catalog entries of a condition name; none for a name the catalog lacks.
CatalogOf(condition) ==
  IF condition \in DOMAIN MEDICINE_DATABASE
    THEN Range(MEDICINE_DATABASE[condition]) ELSE {}

\* The catalog entries a returned entry of the current call stands for.
EntriesFor(returned) ==
  {med \in CatalogOf(disease) : med.name = returned.Medicine}

\* Equality of two texts up to letter case.
SameUpToCase(a, b) ==
  /\ Len(a) = Len(b)
  /\ \A i \in 1..Len(a) :
       \/ a[i] = b[i]
       \/ \E k \in 1..Len(UpperCase) :
            {a[i], b[i]} = {UpperCase[k], LowerCase[k]}

\* C1: whenever the reported collection holds at least 3 of the 6 Cardiac
\* Risk symptoms, predict_disease returns exactly ("Cardiac Risk", 95).
C1_CardiacOverride ==
  Cardinality(CardiacSymptoms \cap symptoms) >= 3
    => prediction = "Cardiac Risk" /\ confidence = 95

\* A call with exactly 3 cardiac symptoms and an identifier outside the
\* vocabulary, for which the classifier's own confidence is not 95.
C1_Witness ==
  /\ pc = "predict_disease"
  /\ Cardinality(CardiacSymptoms \cap symptoms) = 3
  /\ "itching" \in symptoms
  /\ model_predict(disease_model, symptom_vector(symptoms)).confidence # 95
  /\ prediction = "Cardiac Risk"
  /\ confidence = 95

\* The catalog with medicines listed under Cardiac Risk.
StockedCatalog ==
  [d \in DOMAIN MEDICINE_DATABASE |->
     IF d = "Cardiac Risk" THEN MEDICINE_DATABASE["Flu"] ELSE MEDICINE_DATABASE[d]]

\* C2: get_medicine_recommendations("Cardiac Risk", age, allergies) returns
\* the empty list for every age and allergy collection, and would do so even
\* if the catalog listed medicines under Cardiac Risk.
C2_CardiacNoMedicines ==
  (pc = "get_medicine_recommendations" /\ disease = "Cardiac Risk")
    => /\ safe_medicines = <<>>
       /\ recommend_from(StockedCatalog, disease, patient_age, allergies) = <<>>

\* A Cardiac Risk call whose age and allergies would pass entries of a
\* stocked catalog through the filter.
C2_Witness ==
  /\ pc = "get_medicine_recommendations"
  /\ disease = "Cardiac Risk"
  /\ safe_medicines = <<>>
  /\ filter_medicines(StockedCatalog[disease], Len(StockedCatalog[disease]),
                      patient_age, allergies) # <<>>

\* C3: for a condition other than Cardiac Risk, every returned entry stands
\* for a catalog entry whose minimum age is unset or at most the patient age.
C3_AgeFilter ==
  (pc = "get_medicine_recommendations" /\ disease # "Cardiac Risk")
    => \A i \in 1..Len(safe_medicines) :
         /\ EntriesFor(safe_medicines[i]) # {}
         /\ \A med \in EntriesFor(safe_medicines[i]) :
              \A minimum \in med.age_restrictions : minimum <= patient_age

\* Acidity at age 12: Omeprazole (18) is left out, Famotidine (12) is kept.
C3_Witness ==
  /\ pc = "get_medicine_recommendations"
  /\ disease = "Acidity"
  /\ patient_age = 12
  /\ allergies = {}
  /\ Len(safe_medicines) = 3
  /\ safe_medicines[1].Medicine = "Ranitidine alternatives (Famotidine)"

\* C4: for a condition other than Cardiac Risk, no returned entry stands for
\* a catalog entry one of whose contraindication tags is among the allergies.
C4_AllergyFilter ==
  (pc = "get_medicine_recommendations" /\ disease # "Cardiac Risk")
    => \A i \in 1..Len(safe_medicines) :
         \A med \in EntriesFor(safe_medicines[i]) :
           Range(med.contraindications) \cap allergies = {}

\* Flu at 30 with allergies paracetamol and penicillin: Paracetamol is left
\* out; Cetirizine, Vitamin C and Zinc supplements are returned.
C4_Witness ==
  /\ pc = "get_medicine_recommendations"
  /\ disease = "Flu"
  /\ patient_age = 30
  /\ allergies = { <<"p","a","r","a","c","e","t","a","m","o","l">>,
                   <<"p","e","n","i","c","i","l","l","i","n">> }
  /\ [i \in 1..Len(safe_medicines) |-> safe_medicines[i].Medicine]
       = <<"Cetirizine", "Vitamin C", "Zinc supplements">>

\* C5 as stated: get_medicine_recommendations leaves out every entry one of
\* whose tags equals an allergy token up to letter case.
C5_CaseInsensitiveCall ==
  pc = "get_medicine_recommendations"
    => \A i \in 1..Len(safe_medicines) :
         \A med \in EntriesFor(safe_medicines[i]) :
           \A tag \in Range(med.contraindications), allergy \in allergies :
             ~ SameUpToCase(tag, allergy)

\* C5, amended: in a run of the page, no recommended entry has a tag that
\* equals, up to letter case and surrounding whitespace, a token typed into
\* the allergy field between commas.
C5_CaseInsensitivePage ==
  (pc = "main" /\ disease # "none")
    => \A i \in 1..Len(safe_medicines) :
         \A med \in EntriesFor(safe_medicines[i]) :
           \A tag \in Range(med.contraindications),
              typed \in Range(split(form.allergies_input, ",")) :
             ~ SameUpToCase(tag, strip(typed))

\* A run of the page with "Paracetamol" typed, for a condition whose catalog
\* lists Paracetamol, which is not among the recommendations.
C5_Witness ==
  /\ pc = "main"
  /\ form.allergies_input = <<"P","a","r","a","c","e","t","a","m","o","l">>
  /\ disease \in {"Flu", "Viral Infection"}
  /\ safe_medicines # <<>>
  /\ \A i \in 1..Len(safe_medicines) : safe_medicines[i].Medicine # "Paracetamol"

\* C6: get_medicine_recommendations with a condition name that is not one of
\* the four supported conditions fails with an UnknownCondition error.
C6_UnknownConditionFails ==
  (pc = "get_medicine_recommendations" /\ disease \notin Range(DISEASES))
    => raised = "UnknownCondition"

\* C7: predict_disease with an identifier outside the vocabulary in the
\* collection fails with an InvalidInput error.
C7_InvalidSymptomFails ==
  (pc = "predict_disease" /\ ~ validate_symptoms(symptoms))
    => raised = "InvalidInput"

\* C8: whatever the augmentation drew, predict_disease of fever, cough,
\* body_ache and chills returns the condition Flu.
C8_FluScenario ==
  (pc = "predict_disease" /\ symptoms = {"fever", "cough", "body_ache", "chills"})
    => prediction = "Flu"

\* C9: the confidence predict_disease returns is an integer from 0 to 100 and
\* the condition is one of the four supported names, for every collection,
\* the empty one included.
C9_ResultRange ==
  pc \in {"predict_disease", "main"} /\ prediction # "none"
    => confidence \in 0..100 /\ prediction \in Range(DISEASES)

\* predict_disease of the empty collection: the four classes tie at 25%.
C9_Witness ==
  /\ pc = "predict_disease"
  /\ symptoms = {}
  /\ prediction = "Acidity"
  /\ confidence = 25

\* The identifiers a text names: those among its space-separated words.
Named(description) ==
  {s \in Range(AVAILABLE_SYMPTOMS) :
     Identifier(s) \in Range(split(description, " "))}

\* The text is the identifiers of a subset of the vocabulary, joined by
\* single spaces.
IsIdentifierText(description) ==
  description = JoinIdentifiers(Named(description), Len(AVAILABLE_SYMPTOMS))

\* C10 as stated: the extraction of the space-joined identifiers of a subset
\* S of the vocabulary contains every element of S.
C10_IdentifiersRecovered ==
  (pc = "extract_symptoms_from_text" /\ IsIdentifierText(text))
    => Named(text) \subseteq Range(extracted_symptoms)

\* C10, amended: the extraction of the space-joined identifiers of S contains
\* exactly those elements of S whose identifier has no underscore.
C10_SingleWordIdentifiersRecovered ==
  (pc = "extract_symptoms_from_text" /\ IsIdentifierText(text))
    => \A s \in Named(text) :
         s \in Range(extracted_symptoms) <=> "_" \notin Range(Identifier(s))

\* The text "vomiting weakness": both are recovered, and fatigue with them.
C10_Witness ==
  /\ pc = "extract_symptoms_from_text"
  /\ IsIdentifierText(text)
  /\ Named(text) = {"vomiting", "weakness"}
  /\ extracted_symptoms = <<"fatigue", "vomiting", "weakness">>

\* A phrase occurs in a text as whole words: some stretch of the text spells
\* it, with no letter, digit or underscore right before or right after.
OccursAsWords(phrase, str) ==
  \E first \in 1..(Len(str) - Len(phrase) + 1) :
    LET last == first + Len(phrase) - 1
    IN  /\ \A j \in 1..Len(phrase) : str[first + j - 1] = phrase[j]
        /\ first = 1 \/ str[first - 1] \notin WordChars
        /\ last = Len(str) \/ str[last + 1] \notin WordChars

\* The position of a symptom among the keys of the keyword dictionary.
DictionaryIndex(symptom) ==
  CHOOSE n \in 1..Len(SYMPTOM_KEYWORDS) : SYMPTOM_KEYWORDS[n].symptom = symptom

\* C11: extract_symptoms_from_text returns without error, without duplicates
\* and in keyword-dictionary order exactly the symptoms one of whose phrase
\* variants occurs in the lowercased text as whole words; a keyword found only
\* inside a larger word adds nothing, and a text with no match gives <<>>.
C11_ExtractWholeWords ==
  pc = "extract_symptoms_from_text"
    => /\ raised = "none"
       /\ \A n \in 1..Len(SYMPTOM_KEYWORDS) :
            SYMPTOM_KEYWORDS[n].symptom \in Range(extracted_symptoms)
              <=> \E k \in 1..Len(SYMPTOM_KEYWORDS[n].keywords) :
                    OccursAsWords(SYMPTOM_KEYWORDS[n].keywords[k], lower(text))
       /\ \A i \in 1..Len(extracted_symptoms) :
            \E n \in 1..Len(SYMPTOM_KEYWORDS) :
              SYMPTOM_KEYWORDS[n].symptom = extracted_symptoms[i]
       /\ \A i, j \in 1..Len(extracted_symptoms) :
            i < j => DictionaryIndex(extracted_symptoms[i])
                       < DictionaryIndex(extracted_symptoms[j])

\* "dizzy then fever": dizziness is mentioned first, fever is the earlier key.
C11_Witness ==
  /\ pc = "extract_symptoms_from_text"
  /\ text = <<"d","i","z","z","y"," ","t","h","e","n"," ","f","e","v","e","r">>
  /\ extracted_symptoms = <<"fever", "dizziness">>
  /\ raised = "none"

\* The symptoms a run of main analyses: the ticked boxes in list mode, the
\* symptoms extracted from the description in text mode.
AnalysedSymptoms ==
  IF form.input_method = "Select from list"
    THEN form.ticked ELSE Range(extracted_symptoms)

\* The medicine names of the whole catalog.
MedicineNames ==
  UNION {{med.name : med \in CatalogOf(d)} : d \in DOMAIN MEDICINE_DATABASE}

\* C12: in every run of main, in either input mode, whose ticked or extracted
\* symptoms hold at least 3 Cardiac Risk symptoms, no medicine entry is
\* retrieved, shown on the page or written to the report, and a run that gets
\* past the input checks reports Cardiac Risk at confidence 95 with the
\* no-self-medication line as its only recommendation text.
C12_CardiacRunNoMedicines ==
  (pc = "main" /\ Cardinality(CardiacSymptoms \cap AnalysedSymptoms) >= 3)
    => /\ safe_medicines = <<>>
       /\ page.shown = <<>>
       /\ \A i \in 1..Len(page.report) : page.report[i] \notin MedicineNames
       /\ page.error = "none"
            => /\ prediction = "Cardiac Risk"
               /\ confidence = 95
               /\ page.report =
                    <<"IMMEDIATE MEDICAL ATTENTION REQUIRED - NO SELF-MEDICATION">>

\* A text-mode run on the sentence with chest pain, dizziness and sweating.
C12_Witness ==
  /\ pc = "main"
  /\ form.input_method = "Describe in text (NLP)"
  /\ form.symptom_text =
       <<"I"," ","h","a","v","e"," ","c","h","e","s","t"," ","p","a","i","n"," ",
         "a","n","d"," ","f","e","e","l"," ","d","i","z","z","y"," ","a","n","d"," ",
         "a","m"," ","s","w","e","a","t","i","n","g">>
  /\ Range(extracted_symptoms) = {"chest_pain", "dizziness", "sweating"}
  /\ form.patient_name # ""
  /\ prediction = "Cardiac Risk"
  /\ confidence = 95
  /\ safe_medicines = <<>>
  /\ page.error = "none"
  /\ page.shown = <<>>

\* C13: a call of get_medicine_recommendations with a negative age either
\* raises an error or returns exactly what the same call returns for age 0,
\* for every condition and every allergy collection.
C13_NegativeAgeAsZero ==
  (pc = "get_medicine_recommendations" /\ patient_age < 0)
    => \/ raised # "none"
       \/ safe_medicines = get_medicine_recommendations(disease, 0, allergies)

\* Viral Infection at age -1 with no allergy: no error, and the two entries
\* without a minimum age come back, as they do at age 0.
C13_Witness ==
  /\ pc = "get_medicine_recommendations"
  /\ disease = "Viral Infection"
  /\ patient_age < 0
  /\ allergies = {}
  /\ raised = "none"
  /\ Len(safe_medicines) > 0
  /\ Len(safe_medicines) < Len(MEDICINE_DATABASE["Viral Infection"])

\* The catalog list of a condition name; empty for a name the catalog lacks.
CatalogList(condition) ==
  IF condition \in DOMAIN MEDICINE_DATABASE
    THEN MEDICINE_DATABASE[condition] ELSE <<>>

\* A catalog entry passes the age test and the allergy test of the call.
PassesBoth(med) ==
  /\ \A minimum \in med.age_restrictions : patient_age >= minimum
  /\ Range(med.contraindications) \cap allergies = {}

\* The positions, in increasing order, of the catalog entries that pass.
RECURSIVE PassingPositions(_, _)
PassingPositions(catalog, n) ==
  IF n = 0 THEN <<>>
  ELSE IF PassesBoth(catalog[n])
         THEN Append(PassingPositions(catalog, n - 1), n)
         ELSE PassingPositions(catalog, n - 1)

\* C14: for a condition other than Cardiac Risk, the result lists exactly the
\* catalog entries of the condition that pass the age test and the allergy
\* test, in catalog order, each with its name, type and notes and annotated
\* "Yes" as age-appropriate; "No" is never produced.
C14_ExactSubsequence ==
  (pc = "get_medicine_recommendations" /\ disease # "Cardiac Risk")
    => LET catalog == CatalogList(disease)
           kept == PassingPositions(catalog, Len(catalog))
       IN  /\ Len(safe_medicines) = Len(kept)
           /\ \A i \in 1..Len(kept) :
                /\ safe_medicines[i].Medicine = catalog[kept[i]].name
                /\ safe_medicines[i].Type = catalog[kept[i]].type
                /\ safe_medicines[i].Notes = catalog[kept[i]].notes
                /\ safe_medicines[i].Age_Appropriate = "Yes"

\* Acidity at age 10 with no allergy: Omeprazole (18) and Famotidine (12) are
\* left out; Antacid then Probiotics come back.
C14_Witness ==
  /\ pc = "get_medicine_recommendations"
  /\ disease = "Acidity"
  /\ patient_age = 10
  /\ allergies = {}
  /\ Len(safe_medicines) = 2
  /\ safe_medicines[1].Medicine = "Antacid (Digene/ENO)"
  /\ safe_medicines[2].Medicine = "Probiotics"

==========================================================================
